---- MODULE Spec2Model ----
(* Model of the job-script generator of hla_benchmark:                     *)
(*   src/scripts/command.py  - the Command token algebra                    *)
(*   src/scripts/job.py      - job descriptors, headers, make_jobscript     *)
(*   src/scripts/pathio.py   - make_dir, get_parent_dir                     *)
(*   src/scripts/cli.py, src/scripts/jobfy_hlatyping.py - the CLI surface   *)
(*                                                                          *)
(* Text is modelled as what the code produces: a text is a sequence of      *)
(* lines (the text split at "\n"), a line is a sequence of string           *)
(* fragments whose concatenation is the line. Paths are sequences of path   *)
(* components (pathlib's Path.parts without the root).                      *)
EXTENDS Integers, Sequences, FiniteSets, TLC

VARIABLES
    cmdA,       \* command.py: left operand (self) of the last operation
    cmdB,       \* command.py: right operand (a Command or a plain list)
    cmdRes,     \* command.py: value returned by the last operation
    cmdOp,      \* command.py: name of the last operation
    cmdObjs,    \* command.py: the Command objects in memory before and after
                \* the last operation (what each stores), the addresses of
                \* the operands and the address of the value returned
    files,      \* file system: regular files, path -> text
    dirs,       \* file system: set of directories
    job,        \* job.py: the Job returned by the last setup_job
    jobScheduler, \* the scheduler argument of the setup_job that returned job
    last,       \* record of the last make_jobscript / setup_job / CLI call
    prev,       \* record of the make_jobscript call before the last one
    ncalls,     \* number of calls made so far (bounded)
    rnd,        \* job.py: the last header or script rendered, with its inputs
    gen,        \* the script last opened for writing by make_jobscript: its
                \* path, the commands it was given, the log paths of its
                \* Job, and whether the content is still to be written
    ex,         \* executions of that script: how many were started, the one
                \* that ended last and the one that ended before it (exit
                \* statuses of the commands, markers touched, exit code)
    sh,         \* the bash processes running that script: for each its
                \* offset in the file, $?, the child process it waits
                \* for and what it has done
    proc        \* concurrent callers of setup_job and make_jobscript: for
                \* each its arguments, its position in the code and what
                \* it has seen and done

vars == <<cmdA, cmdB, cmdRes, cmdOp, cmdObjs, files, dirs, job, jobScheduler, last, prev, ncalls, rnd,
         gen, ex, sh, proc>>

cmdVars == <<cmdA, cmdB, cmdRes, cmdOp, cmdObjs>>

jobVars == <<files, dirs, job, jobScheduler, last, prev, ncalls>>

execVars == <<gen, ex, sh>>

auxVars == <<rnd, execVars, proc>>

(***************************************************************************)
(* Bounds                                                                  *)
(***************************************************************************)
MaxTokens == 2

MaxCalls == 3

MaxRuns == 2

MaxNproc == 5

MaxCommands == 2

MaxExecs == 2

(***************************************************************************)
(* Generic string helpers                                                  *)
(***************************************************************************)
RECURSIVE JoinStr(_, _)
\* str.join: sep.join(seq) for a sequence of strings
JoinStr(seq, sep) ==
    IF Len(seq) = 0 THEN ""
    ELSE IF Len(seq) = 1 THEN seq[1]
    ELSE seq[1] \o sep \o JoinStr(Tail(seq), sep)

RECURSIVE Tuples(_, _)
\* all sequences over S of length 0..n
Tuples(S, n) ==
    IF n = 0 THEN {<<>>}
    ELSE LET shorter == Tuples(S, n - 1)
         IN shorter \cup {Append(t, x) : t \in {u \in shorter : Len(u) = n - 1}, x \in S}

(***************************************************************************)
(* command.py                                                              *)
(***************************************************************************)
\* CmdArg = str | int | bool | float | Path, tagged with its Python type
StrArg(s) == [t |-> "str", v |-> s]

IntArg(n) == [t |-> "int", v |-> n]

PathArg(s) == [t |-> "path", v |-> s]

\* str(arg) for a CmdArg that is not already a str
Str(arg) == IF arg.t = "int" THEN ToString(arg.v) ELSE arg.v

NoValue == [kind |-> "none", items |-> <<>>]

\* a plain Python list of CmdArg
List(items) == [kind |-> "list", items |-> items]

\* Command.__init__: stores the argument tuple as given, never raises
CommandInit(items) == [kind |-> "Command", items |-> items]

\* Command.args: every stored argument, stringified unless already a str
CommandArgs(cmd) == [i \in 1..Len(cmd.items) |-> Str(cmd.items[i])]

AddDropsOperand(cmd1, cmd2) ==
    CommandInit([i \in 1..Len(cmd1.items) |-> StrArg(Str(cmd1.items[i]))])

\* Command.__add__
Add(cmd1, cmd2) ==
    LET c2 == IF cmd2.kind # "Command" THEN CommandInit(cmd2.items) ELSE cmd2
        toks == CommandArgs(cmd1) \o CommandArgs(c2)
    IN CommandInit([i \in 1..Len(toks) |-> StrArg(toks[i])])

\* a Command object in memory: what its __args holds.  __init__ stores the
\* tuple of arguments (t = "tuple"); a str would be t = "str" with its
\* characters in s
TupleArgs(items) == [t |-> "tuple", items |-> items, s |-> <<>>]

\* Command.__init__ in the memory h: a new object, after all those of h,
\* that stores the argument tuple as given
NewCommand(h, items) == Append(h, TupleArgs(items))

\* the Command held by the object at address id, as a value
ObjValue(h, id) == CommandInit(h[id].items)

\* Command.__split: shlex.split(cmd), that is
\* shlex.shlex(posix=True, whitespace_split=True, commenters=""): the
\* characters cs are read in state st (" ": between words, "a": in a word,
\* a quote: in that quote, "\\": after a backslash, to go on in state esc),
\* tok is the word read so far, quoted whether a quote was met in it, out
\* the words read
Split(chars) ==
    LET ShWhitespace == {" ", "\t", "\r", "\n"}
        ShQuotes == {"'", "\""}
        RECURSIVE Shlex(_, _, _, _, _, _)
        Shlex(cs, st, esc, tok, quoted, out) ==
            LET emit == IF tok # "" \/ quoted THEN Append(out, tok) ELSE out
            IN IF cs = <<>>
               THEN IF st \in ShQuotes \cup {"\\"}
                    THEN [raised |-> "ValueError", words |-> <<>>]
                    ELSE [raised |-> "none", words |-> IF st = "a" THEN emit ELSE out]
               ELSE LET c == Head(cs)
                        r == Tail(cs)
                    IN IF st = " "
                       THEN IF c \in ShWhitespace THEN Shlex(r, " ", esc, "", FALSE, out)
                            ELSE IF c = "\\" THEN Shlex(r, "\\", "a", "", FALSE, out)
                            ELSE IF c \in ShQuotes THEN Shlex(r, c, esc, "", FALSE, out)
                            ELSE Shlex(r, "a", esc, c, FALSE, out)
                       ELSE IF st \in ShQuotes
                       THEN IF c = st THEN Shlex(r, "a", esc, tok, TRUE, out)
                            ELSE IF c = "\\" /\ st = "\"" THEN Shlex(r, "\\", st, tok, TRUE, out)
                            ELSE Shlex(r, st, esc, tok \o c, TRUE, out)
                       ELSE IF st = "\\"
                       THEN Shlex(r, esc, esc,
                                  IF esc \in ShQuotes /\ c # "\\" /\ c # esc
                                  THEN tok \o "\\" \o c ELSE tok \o c,
                                  quoted, out)
                       ELSE IF c \in ShWhitespace THEN Shlex(r, " ", esc, "", FALSE, emit)
                            ELSE IF c \in ShQuotes THEN Shlex(r, c, esc, tok, quoted, out)
                            ELSE IF c = "\\" THEN Shlex(r, "\\", "a", tok, quoted, out)
                            ELSE Shlex(r, "a", esc, tok \o c, quoted, out)
    IN Shlex(chars, " ", " ", "", FALSE, <<>>)

\* the memory after the args property of the object at id was read: the
\* property rewrites __args when it is a str, and only then
ArgsAccess(h, id) ==
    IF h[id].t = "str"
    THEN LET w == Split(h[id].s)
         IN IF w.raised # "none" THEN [raised |-> w.raised, objs |-> h]
            ELSE [raised |-> "none",
                  objs |-> [h EXCEPT ![id] =
                              TupleArgs([i \in 1..Len(w.words) |-> StrArg(w.words[i])])]]
    ELSE [raised |-> "none", objs |-> h]

AddObjInPlace(h, self, cmd2) ==
    LET h1 == IF cmd2.kind # "ref" THEN NewCommand(h, cmd2.items) ELSE h
        id2 == IF cmd2.kind # "ref" THEN Len(h1) ELSE cmd2.id
    IN [raised |-> "none",
        objs |-> [h1 EXCEPT ![self] =
                    TupleArgs(Add(ObjValue(h1, self), ObjValue(h1, id2)).items)],
        res |-> self]

\* Command.__add__ in the memory h: self is the address of the left operand,
\* cmd2 a reference to a Command or a plain list.  The result is the memory
\* the call leaves and the address of the Command it returns.
AddObj(h, self, cmd2) ==
    LET h1 == IF cmd2.kind # "ref" THEN NewCommand(h, cmd2.items) ELSE h
        id2 == IF cmd2.kind # "ref" THEN Len(h1) ELSE cmd2.id
        a1 == ArgsAccess(h1, self)
        a2 == ArgsAccess(a1.objs, id2)
    IN IF a1.raised # "none" THEN [raised |-> a1.raised, objs |-> a1.objs, res |-> 0]
       ELSE IF a2.raised # "none" THEN [raised |-> a2.raised, objs |-> a2.objs, res |-> 0]
       ELSE [raised |-> "none",
             objs |-> NewCommand(a2.objs,
                                 Add(ObjValue(a2.objs, self), ObjValue(a2.objs, id2)).items),
             res |-> Len(a2.objs) + 1]

\* Command.__or__ in the memory h: self + Command("|") + cmd2
OrObj(h, self, other) ==
    LET pipe == NewCommand(h, <<StrArg("|")>>)
        first == AddObj(pipe, self, [kind |-> "ref", id |-> Len(pipe)])
    IN IF first.raised # "none" THEN first
       ELSE AddObj(first.objs, first.res, [kind |-> "ref", id |-> other])

\* the redirection methods in the memory h: self + Command(<operator>, ...)
RedirectObj(h, self, extra) ==
    LET e == NewCommand(h, extra.items)
    IN AddObj(e, self, [kind |-> "ref", id |-> Len(e)])

\* Command.__or__
Or(cmd1, cmd2) == Add(Add(cmd1, CommandInit(<<StrArg("|")>>)), cmd2)

\* Command.direct_to_stdout
DirectToStdout(cmd, stdout, append) ==
    LET rd == IF ~append THEN ">" ELSE ">>"
    IN Add(cmd, CommandInit(<<StrArg(rd), PathArg(stdout)>>))

\* Command.direct_to_stderr
DirectToStderr(cmd, stderr, append) ==
    LET rd == IF ~append THEN ">" ELSE ">>"
    IN Add(cmd, CommandInit(<<StrArg("2" \o rd), PathArg(stderr)>>))

\* Command.redirect_stdout_to_stderr
RedirectStdoutToStderr(cmd) == Add(cmd, CommandInit(<<StrArg(">&2")>>))

\* Command.redirect_stderr_to_stdout
RedirectStderrToStdout(cmd) == Add(cmd, CommandInit(<<StrArg("2>&1")>>))

\* " ".join(command.args), the rendering used by make_jobscript
Render(cmd) == JoinStr(CommandArgs(cmd), " ")

\* the argument values commands are built from
ArgPool == {StrArg("ls"), StrArg(""), IntArg(8)}

ArgTuples == Tuples(ArgPool, MaxTokens)

RedirectTargets == {"/wd/log/j.stdout"}

(***************************************************************************)
(* Paths and text                                                          *)
(***************************************************************************)
\* str(path) of an absolute path given by its components
PathStr(p) == "/" \o JoinStr(p, "/")

\* pathlib: path / name
PathJoin(p, name) == Append(p, name)

\* pathlib: path.parents, nearest ancestor first
Parents(p) == [i \in 1..Len(p) |-> SubSeq(p, 1, Len(p) - i)]

EmptyLine == <<>>

\* the empty string, as a text: one empty line
EmptyText == <<EmptyLine>>

\* the characters of one line
LineText(line) == JoinStr(line, "")

\* the characters of a text
Text(t) == JoinStr([i \in 1..Len(t) |-> LineText(t[i])], "\n")

\* st_size of a file holding the text t
Size(t) == Len(Text(t))

\* the strings the generated scripts are made of, character by character:
\* the literals of the headers and of the epilogue, the job names, the log
\* paths and the command lines
Spellings ==
    {
      <<"#", "!", "/", "u", "s", "r", "/", "b", "i", "n", "/", "e", "n", "v", " ", "b",
        "a", "s", "h">>,
      <<"#", "S", "B", "A", "T", "C", "H">>,
      <<" ", "-", "-", "j", "o", "b", "-", "n", "a", "m", "e", "=", "\"">>,
      <<" ", "-", "-", "o", "u", "t", "p", "u", "t", "=">>,
      <<" ", "-", "-", "e", "r", "r", "o", "r", "=">>,
      <<" ", "-", "-", "c", "p", "u", "s", "-", "p", "e", "r", "-", "t", "a", "s", "k",
        "=">>,
      <<" ", "-", "-", "m", "e", "m", "=">>,
      <<" ", "-", "-", "n", "t", "a", "s", "k", "s", "=">>,
      <<" ", "-", "-", "n", "o", "d", "e", "s", "=">>,
      <<"#", "$">>,
      <<" ", "-", "N", " ">>,
      <<" ", "-", "o", " ">>,
      <<" ", "-", "e", " ">>,
      <<" ", "-", "p", "e", " ", "s", "h", "m", " ">>,
      <<" ", "-", "l", " ", "h", "_", "v", "e", "m", "e", " ">>,
      <<"i", "f", " ", "[", "[", " ", "$", "?", " ", "!", "=", " ", "0", " ", "]", "]",
        ";", " ", "t", "h", "e", "n">>,
      <<" ", " ", " ", " ", "t", "o", "u", "c", "h", " ">>,
      <<" ", " ", " ", " ", "e", "x", "i", "t", " ", "1">>,
      <<"e", "l", "s", "e">>,
      <<" ", " ", " ", " ", "e", "x", "i", "t", " ", "0">>,
      <<"f", "i">>,
      <<" ", " ", " ", " ">>,
      <<"h", "l", "a", "r", "e", "f", "o", "r", "g", "e", "d", ".", "S", "1">>,
      <<"s", "o", "r", "t", " ", "-", "k", " ", "1">>,
      <<"t", "o", "o", "l", "X", " ", "-", "-", "i", "n", " ", "/", "w", "d", "/", "a",
        ".", "f", "q">>,
      <<"h", "l", "a", "p", "o", "l", "y", "s", "o", "l", "v", "e", "r", ".", "S", "1">>,
      <<"/", "w", "d", "/", "l", "o", "g", "/", "h", "l", "a", "r", "e", "f", "o", "r",
        "g", "e", "d", ".", "S", "1", ".", "s", "t", "d", "o", "u", "t">>,
      <<"/", "w", "d", "/", "l", "o", "g", "/", "h", "l", "a", "r", "e", "f", "o", "r",
        "g", "e", "d", ".", "S", "1", ".", "s", "t", "d", "e", "r", "r">>,
      <<"/", "w", "d", "/", "l", "o", "g", "/", "h", "l", "a", "r", "e", "f", "o", "r",
        "g", "e", "d", ".", "S", "1", ".", "f", "a", "i", "l">>,
      <<"/", "w", "d", "/", "l", "o", "g", "/", "h", "l", "a", "r", "e", "f", "o", "r",
        "g", "e", "d", ".", "S", "1", ".", "d", "o", "n", "e">>,
      <<"/", "w", "d", "/", "l", "o", "g", "/", "h", "l", "a", "p", "o", "l", "y", "s",
        "o", "l", "v", "e", "r", ".", "S", "1", ".", "s", "t", "d", "o", "u", "t">>,
      <<"/", "w", "d", "/", "l", "o", "g", "/", "h", "l", "a", "p", "o", "l", "y", "s",
        "o", "l", "v", "e", "r", ".", "S", "1", ".", "s", "t", "d", "e", "r", "r">>,
      <<"/", "w", "d", "/", "l", "o", "g", "/", "h", "l", "a", "p", "o", "l", "y", "s",
        "o", "l", "v", "e", "r", ".", "S", "1", ".", "f", "a", "i", "l">>,
      <<"/", "w", "d", "/", "l", "o", "g", "/", "h", "l", "a", "p", "o", "l", "y", "s",
        "o", "l", "v", "e", "r", ".", "S", "1", ".", "d", "o", "n", "e">>
    }

\* the spelling of each of these strings
Spelled ==
    [s \in {JoinStr(cs, "") : cs \in Spellings} |->
        CHOOSE cs \in Spellings : JoinStr(cs, "") = s]

\* the characters of a string
Chars(s) == IF Len(s) = 0 THEN <<>> ELSE IF Len(s) = 1 THEN <<s>> ELSE Spelled[s]

RECURSIVE LineChars(_)
\* the characters of one line
LineChars(line) ==
    IF line = <<>> THEN <<>> ELSE Chars(Head(line)) \o LineChars(Tail(line))

RECURSIVE TextChars(_)
\* the characters of a text, in file order: "\n" between two lines
TextChars(t) ==
    IF Len(t) = 1 THEN LineChars(t[1])
    ELSE LineChars(t[1]) \o <<"\n">> \o TextChars(Tail(t))

RECURSIVE SplitLines(_)
\* str.split("\n") of a sequence of characters
SplitLines(cs) ==
    IF \A i \in 1..Len(cs) : cs[i] # "\n" THEN <<cs>>
    ELSE LET n == CHOOSE i \in 1..Len(cs) :
                      cs[i] = "\n" /\ \A h \in 1..(i - 1) : cs[h] # "\n"
         IN <<SubSeq(cs, 1, n - 1)>> \o SplitLines(SubSeq(cs, n + 1, Len(cs)))

\* the characters a shell variable name can start with
NameStart ==
    {"a", "b", "c", "d", "e", "f", "g", "h", "i", "j", "k", "l", "m", "n", "o", "p",
     "q", "r", "s", "t", "u", "v", "w", "x", "y", "z", "A", "B", "C", "D", "E", "F",
     "G", "H", "I", "J", "K", "L", "M", "N", "O", "P", "Q", "R", "S", "T", "U", "V",
     "W", "X", "Y", "Z", "_"}

\* the characters a shell variable name is made of
NameChars == NameStart \cup {"0", "1", "2", "3", "4", "5", "6", "7", "8", "9"}

RECURSIVE JoinLines(_, _)
\* sep.join(parts) for texts; blanks is the list of empty lines inside sep
\* (<<>> for "\n", <<EmptyLine>> for "\n\n")
JoinLines(parts, blanks) ==
    IF Len(parts) = 0 THEN EmptyText
    ELSE IF Len(parts) = 1 THEN parts[1]
    ELSE parts[1] \o blanks \o JoinLines(Tail(parts), blanks)

(***************************************************************************)
(* pathio.py                                                               *)
(***************************************************************************)
\* make_dir(path, parents=True, exist_ok=True) on the directory set ds
MakeDir(ds, fs, path) ==
    IF path \notin ds /\ path \notin DOMAIN fs
    THEN ds \cup {SubSeq(path, 1, k) : k \in 1..Len(path)}
    ELSE ds

\* get_parent_dir(p, level)
GetParentDir(p, level) ==
    IF level > Len(Parents(p)) THEN [raised |-> "ValueError", value |-> <<>>]
    ELSE IF level + 1 > Len(Parents(p)) THEN [raised |-> "IndexError", value |-> <<>>]
    ELSE [raised |-> "none", value |-> Parents(p)[level + 1]]

(***************************************************************************)
(* job.py: descriptors                                                     *)
(***************************************************************************)
\* ResourceToAsk(nproc, ram) with the dataclass defaults ntask = 1, nodes = 1
ResourceToAsk(nproc, ram) == [nproc |-> nproc, ram |-> ram, ntask |-> 1, nodes |-> 1]

\* JobLog
JobLog(stdout, stderr, donefile, failfile) ==
    [stdout |-> stdout, stderr |-> stderr, donefile |-> donefile, failfile |-> failfile]

\* Job
Job(name, resource, log, script) ==
    [name |-> name, resource |-> resource, log |-> log, script |-> script]

NoPath == <<>>

NoJob == Job("", ResourceToAsk(1, 4), JobLog(NoPath, NoPath, NoPath, NoPath), NoPath)

Shebang == <<"#!/usr/bin/env bash">>

\* the string "#!/usr/bin/env bash\n": the shebang line and an empty last line
ShebangNewline == <<Shebang, EmptyLine>>

SlurmJobHeaderFixedTasks(j) ==
    LET directive_prefix == "#SBATCH"
        header == <<
            ShebangNewline,
            << <<directive_prefix, " --job-name=\"", j.name, "\"">> >>,
            << <<directive_prefix, " --output=", PathStr(j.log.stdout)>> >>,
            << <<directive_prefix, " --error=", PathStr(j.log.stderr)>> >>,
            << <<directive_prefix, " --ntasks=1">> >>,
            << <<directive_prefix, " --cpus-per-task=", ToString(j.resource.nproc)>> >>,
            << <<directive_prefix, " --mem=", ToString(j.resource.ram), "G">> >>
        >>
    IN JoinLines(header, <<>>)

\* SlurmJobHeader.make
SlurmJobHeaderMake(j) ==
    LET directive_prefix == "#SBATCH"
        header == <<
            ShebangNewline,
            << <<directive_prefix, " --job-name=\"", j.name, "\"">> >>,
            << <<directive_prefix, " --output=", PathStr(j.log.stdout)>> >>,
            << <<directive_prefix, " --error=", PathStr(j.log.stderr)>> >>,
            << <<directive_prefix, " --ntasks=", ToString(j.resource.ntask)>> >>,
            << <<directive_prefix, " --nodes=", ToString(j.resource.nodes)>> >>,
            << <<directive_prefix, " --cpus-per-task=", ToString(j.resource.nproc)>> >>,
            << <<directive_prefix, " --mem=", ToString(j.resource.ram), "G">> >>
        >>
    IN JoinLines(header, <<>>)

IntHalfRoundsUp(x) == (x + 1) \div 2

\* int(x / 2) for an int x: true division, then truncation toward zero
IntHalf(x) == IF x >= 0 THEN x \div 2 ELSE -((-x) \div 2)

\* SGEJobHeader.make
SGEJobHeaderMake(j) ==
    LET directive_prefix == "#$"
        header == <<
            ShebangNewline,
            << <<directive_prefix, " -N ", j.name>> >>,
            << <<directive_prefix, " -o ", PathStr(j.log.stdout)>> >>,
            << <<directive_prefix, " -e ", PathStr(j.log.stderr)>> >>,
            << <<directive_prefix, " -pe shm ", ToString(IntHalf(j.resource.nproc))>> >>,
            << <<directive_prefix, " -l h_veme ", ToString(j.resource.ram), "G">> >>
        >>
    IN JoinLines(header, <<>>)

\* setup_job_logfiles: creates <dir>/log, returns the four log paths
SetupJobLogfiles(ds, fs, dir, fileprefix) ==
    LET logdir == PathJoin(dir, "log")
    IN [dirs |-> MakeDir(ds, fs, logdir),
        value |-> JobLog(PathJoin(logdir, fileprefix \o ".stdout"),
                         PathJoin(logdir, fileprefix \o ".stderr"),
                         PathJoin(logdir, fileprefix \o ".done"),
                         PathJoin(logdir, fileprefix \o ".fail"))]

SetupJobScriptAlwaysSlurm(ds, fs, dir, fileprefix, scheduler) ==
    LET jobdir == PathJoin(dir, "job")
        made == MakeDir(ds, fs, jobdir)
    IN IF scheduler \in {"slurm", "sge", "bash"}
       THEN [raised |-> "none", dirs |-> made,
             value |-> PathJoin(jobdir, fileprefix \o ".slurm")]
       ELSE [raised |-> "ValueError", dirs |-> made, value |-> NoPath]

\* setup_job_script: creates <dir>/job, then picks the suffix or raises
SetupJobScript(ds, fs, dir, fileprefix, scheduler) ==
    LET jobdir == PathJoin(dir, "job")
        made == MakeDir(ds, fs, jobdir)
    IN IF scheduler = "slurm"
       THEN [raised |-> "none", dirs |-> made,
             value |-> PathJoin(jobdir, fileprefix \o ".slurm")]
       ELSE IF scheduler = "sge"
       THEN [raised |-> "none", dirs |-> made,
             value |-> PathJoin(jobdir, fileprefix \o ".sge")]
       ELSE IF scheduler = "bash"
       THEN [raised |-> "none", dirs |-> made,
             value |-> PathJoin(jobdir, fileprefix \o ".sh")]
       ELSE [raised |-> "ValueError", dirs |-> made, value |-> NoPath]

\* setup_job: log files first, then the script path
SetupJobResult(ds, fs, dir, jobname, job_resource, scheduler) ==
    LET joblog == SetupJobLogfiles(ds, fs, dir, jobname)
        jobscript == SetupJobScript(joblog.dirs, fs, dir, jobname, scheduler)
    IN IF jobscript.raised # "none"
       THEN [raised |-> jobscript.raised, dirs |-> jobscript.dirs, value |-> NoJob]
       ELSE [raised |-> "none", dirs |-> jobscript.dirs,
             value |-> Job(jobname, job_resource, joblog.value, jobscript.value)]

\* add_rc_status_block: the f-string, line by line
AddRcStatusBlock(joblog) ==
    << EmptyLine,
       <<"if [[ $? != 0 ]]; then">>,
       <<"    touch ", PathStr(joblog.failfile)>>,
       <<"    exit 1">>,
       <<"else">>,
       <<"    touch ", PathStr(joblog.donefile)>>,
       <<"    exit 0">>,
       <<"fi">>,
       EmptyLine,
       <<"    ">> >>

(***************************************************************************)
(* job.py: make_jobscript                                                  *)
(***************************************************************************)
\* Path.exists()
Exists(ds, fs, p) == p \in ds \/ p \in DOMAIN fs

\* Path.stat().st_size of an existing path (a directory is never 0 bytes)
StSize(ds, fs, p) == IF p \in DOMAIN fs THEN Size(fs[p]) ELSE 4096

\* the file system after p holds the text t
WithFile(fs, p, t) == [q \in DOMAIN fs \cup {p} |-> IF q = p THEN t ELSE fs[q]]

\* " ".join(command.args) as one line of the body
BodyLine(cmd) == IF Render(cmd) = "" THEN EmptyLine ELSE <<Render(cmd)>>

BodyReversed(commands) ==
    JoinLines([i \in 1..Len(commands) |->
                 <<BodyLine(commands[Len(commands) + 1 - i])>>], <<>>)

\* body = "\n".join([" ".join(command.args) for command in commands])
Body(commands) == JoinLines([i \in 1..Len(commands) |-> <<BodyLine(commands[i])>>], <<>>)

\* the header chosen by the scheduler argument, or the ValueError
Header(j, scheduler) ==
    IF scheduler = "slurm" THEN [raised |-> "none", value |-> SlurmJobHeaderMake(j)]
    ELSE IF scheduler = "sge" THEN [raised |-> "none", value |-> SGEJobHeaderMake(j)]
    ELSE IF scheduler = "bash" THEN [raised |-> "none", value |-> ShebangNewline]
    ELSE [raised |-> "ValueError", value |-> EmptyText]

\* "\n\n".join([header, body, tail])
Content(commands, j, scheduler) ==
    JoinLines(<<Header(j, scheduler).value, Body(commands), AddRcStatusBlock(j.log)>>,
              <<EmptyLine>>)

WriteConditionIgnoresEmpty(ds, fs, j, overwrite) ==
    ~Exists(ds, fs, j.script) \/ overwrite

WriteConditionNeverSkips(ds, fs, j, overwrite) == TRUE

\* not job.script.exists() or overwrite or job.script.stat().st_size == 0
WriteCondition(ds, fs, j, overwrite) ==
    \/ ~Exists(ds, fs, j.script)
    \/ overwrite
    \/ StSize(ds, fs, j.script) = 0

OpenRechecksCondition(ds, fs, j, overwrite) ==
    IF WriteCondition(ds, fs, j, overwrite)
    THEN [opened |-> TRUE, files |-> WithFile(fs, j.script, EmptyText)]
    ELSE [opened |-> FALSE, files |-> fs]

\* open(job.script, "w"): creates the file or truncates it, whatever it holds
OpenForWrite(ds, fs, j, overwrite) ==
    [opened |-> TRUE, files |-> WithFile(fs, j.script, EmptyText)]

\* the file after a write of content at offset 0 by a writer that opened it
\* with "w": the content, followed by what the file holds beyond its length
\* (written there since the open by another writer)
WriteAtStart(old, content) ==
    IF Size(old) <= Size(content) THEN content
    ELSE LET beyond == SplitLines(SubSeq(TextChars(old), Size(content) + 1, Size(old)))
         IN SubSeq(content, 1, Len(content) - 1)
              \o <<content[Len(content)] \o beyond[1]>> \o Tail(beyond)

\* what a failing write leaves behind: open(path, "w") has truncated the
\* file; nothing, or only a prefix of the content, has reached it
Faults == {"none", "open", "write_empty", "write_partial"}

\* with open(job.script, "w") as fOUT: fOUT.write(...)
WriteFile(fs, p, content, fault) ==
    IF fault = "open" THEN [outcome |-> "OSError", files |-> fs]
    ELSE IF fault = "write_empty"
    THEN [outcome |-> "OSError", files |-> WithFile(fs, p, EmptyText)]
    ELSE IF fault = "write_partial"
    THEN [outcome |-> "OSError", files |-> WithFile(fs, p, SubSeq(content, 1, 1))]
    ELSE [outcome |-> "written", files |-> WithFile(fs, p, content)]

MakeJobscriptChecksBeforeHeader(ds, fs, commands, j, scheduler, overwrite, fault) ==
    LET content == Content(commands, j, scheduler)
    IN IF WriteCondition(ds, fs, j, overwrite)
       THEN IF j.script \in ds
            THEN [outcome |-> "OSError", files |-> fs, content |-> content]
            ELSE [outcome |-> WriteFile(fs, j.script, content, fault).outcome,
                  files |-> WriteFile(fs, j.script, content, fault).files,
                  content |-> content]
       ELSE IF Header(j, scheduler).raised # "none"
       THEN [outcome |-> Header(j, scheduler).raised, files |-> fs, content |-> EmptyText]
       ELSE [outcome |-> "skipped", files |-> fs, content |-> content]

\* make_jobscript(commands, job, scheduler, overwrite)
MakeJobscriptResult(ds, fs, commands, j, scheduler, overwrite, fault) ==
    IF Header(j, scheduler).raised # "none"
    THEN [outcome |-> Header(j, scheduler).raised, files |-> fs, content |-> EmptyText]
    ELSE LET content == Content(commands, j, scheduler)
         IN IF WriteCondition(ds, fs, j, overwrite)
            THEN IF j.script \in ds
                 THEN [outcome |-> "OSError", files |-> fs, content |-> content]
                 ELSE [outcome |-> WriteFile(fs, j.script, content, fault).outcome,
                       files |-> WriteFile(fs, j.script, content, fault).files,
                       content |-> content]
            ELSE [outcome |-> "skipped", files |-> fs, content |-> content]

(***************************************************************************)
(* cli.py, jobfy_hlatyping.py, job.py: jobfy                               *)
(***************************************************************************)
SupportedSchedulers == {"slurm", "sge", "bash"}

\* the input files named on the command line, after parse_path
InputFile(name) == <<"data", name>>

\* parse_cmd().parse_args(): the attributes each sub-parser defines
ParseArgs(command, sample, wkdir, scheduler, realign_only, overwrite, nproc, ram) ==
    IF scheduler \notin SupportedSchedulers
    THEN [raised |-> "SystemExit", value |-> [command |-> command]]
    ELSE IF command = "hlareforged"
    THEN [raised |-> "none",
          value |-> [command |-> command, sample |-> sample,
                     hlaref |-> InputFile("hla.fa"), freq |-> InputFile("freq.txt"),
                     wkdir |-> wkdir, scheduler |-> scheduler,
                     realign_only |-> realign_only, overwrite |-> overwrite,
                     nproc |-> nproc, ram |-> ram,
                     r1 |-> InputFile("r1.fq"), r2 |-> InputFile("r2.fq"),
                     nproc_per_job |-> 2]]
    ELSE [raised |-> "none",
          value |-> [command |-> command, sample |-> sample,
                     hlaref |-> InputFile("hla.fa"), freq |-> InputFile("freq.txt"),
                     wkdir |-> wkdir, scheduler |-> scheduler,
                     realign_only |-> realign_only, overwrite |-> overwrite,
                     nproc |-> nproc, ram |-> ram,
                     bam |-> InputFile("s.bam"), bed |-> InputFile("hla.bed"),
                     tag |-> InputFile("hla.tag"), fish_mode |-> "faster"]]

\* run_hlareforged, the decorated function
RunHlareforged(args) ==
    LET cmd == CommandInit(<<
            StrArg("hlareforged"),
            StrArg("--sample"), StrArg(args.sample),
            StrArg("--r1"), PathArg(PathStr(args.r1)),
            StrArg("--r2"), PathArg(PathStr(args.r2)),
            StrArg("--hla_ref"), PathArg(PathStr(args.hlaref)),
            StrArg("--outdir"), PathArg(PathStr(args.wkdir)),
            StrArg("--nproc"), IntArg(args.nproc),
            StrArg("--nproc_per_job"), IntArg(args.nproc_per_job) >>)
    IN IF args.realign_only
       THEN Add(cmd, List(<<StrArg("--realn_only")>>))
       ELSE Add(cmd, List(<<StrArg("--freq"), PathArg(PathStr(args.freq))>>))

\* run_hlapolysolver, the decorated function
RunHlapolysolver(args) ==
    LET cmd == CommandInit(<<
            StrArg("hlapolysolver"),
            StrArg("--sample"), StrArg(args.sample),
            StrArg("--bam"), PathArg(PathStr(args.bam)),
            StrArg("--hla_ref"), PathArg(PathStr(args.hlaref)),
            StrArg("--bed"), PathArg(PathStr(args.bed)),
            StrArg("--tag"), PathArg(PathStr(args.tag)),
            StrArg("--outdir"), PathArg(PathStr(args.wkdir)),
            StrArg("--fish_mode"), StrArg(args.fish_mode),
            StrArg("--nproc"), IntArg(args.nproc) >>)
    IN IF args.realign_only
       THEN Add(cmd, List(<<StrArg("--realn_only")>>))
       ELSE Add(cmd, List(<<StrArg("--freq"), PathArg(PathStr(args.freq))>>))

\* the working directory the wrapper derives: args.wkdir for hlareforged,
\* the parent of args.out_bam otherwise (an attribute no sub-parser defines)
WrapperWkdir(args) ==
    IF args.command = "hlareforged" THEN [raised |-> "none", value |-> args.wkdir]
    ELSE IF "out_bam" \in DOMAIN args THEN GetParentDir(args.out_bam, 0)
    ELSE [raised |-> "AttributeError", value |-> NoPath]

Failed(exc, ds, fs) ==
    [outcome |-> exc, dirs |-> ds, files |-> fs, path |-> NoPath, content |-> EmptyText]

\* func(args) for the decorated function named func
CallDecorated(func, args) ==
    IF func = "run_hlareforged" THEN RunHlareforged(args) ELSE RunHlapolysolver(args)

\* jobfy(func).wrapper(args)
Jobfy(func, args, ds, fs, fault) ==
    LET jobname == args.command \o "." \o args.sample
        resource == ResourceToAsk(args.nproc, args.ram)
        wkdir == WrapperWkdir(args)
    IN IF wkdir.raised # "none" THEN Failed(wkdir.raised, ds, fs)
       ELSE LET j == SetupJobResult(ds, fs, wkdir.value, jobname, resource, args.scheduler)
            IN IF j.raised # "none" THEN Failed(j.raised, j.dirs, fs)
               ELSE LET r == MakeJobscriptResult(j.dirs, fs, <<CallDecorated(func, args)>>, j.value,
                                                 args.scheduler, args.overwrite, fault)
                    IN [outcome |-> r.outcome, dirs |-> j.dirs, files |-> r.files,
                        path |-> j.value.script, content |-> r.content]

\* main(): parse, then dispatch on the sub-command
Main(command, sample, wkdir, scheduler, realign_only, overwrite, nproc, ram, ds, fs, fault) ==
    LET parsed == ParseArgs(command, sample, wkdir, scheduler, realign_only,
                            overwrite, nproc, ram)
    IN IF parsed.raised # "none" THEN Failed(parsed.raised, ds, fs)
       ELSE IF parsed.value.command = "polysolver"
       THEN Jobfy("run_hlapolysolver", parsed.value, ds, fs, fault)
       ELSE IF parsed.value.command = "hlareforged"
       THEN Jobfy("run_hlareforged", parsed.value, ds, fs, fault)
       ELSE Failed("ValueError", ds, fs)

(***************************************************************************)
(* Inputs                                                                  *)
(***************************************************************************)
Schedulers == SupportedSchedulers \cup {"pbs"}

WorkDirs == {<<"wd">>}

Samples == {"S1"}

SubCommands == {"hlareforged", "polysolver"}

JobNames == {"hlareforged.S1"}

NprocValues == {8}

RamValues == {4}

Resources == {ResourceToAsk(n, r) : n \in NprocValues, r \in RamValues}

ToolX == CommandInit(<<StrArg("toolX"), StrArg("--in"), PathArg("/wd/a.fq")>>)

Sort == CommandInit(<<StrArg("sort"), StrArg("-k"), IntArg(1)>>)

CommandLists == {<<>>, <<ToolX>>, <<ToolX, Sort>>, <<CommandInit(<<>>)>>}

\* the Commands and plain lists an operation can be given
Operands == {CommandInit(t) : t \in ArgTuples} \cup {List(t) : t \in ArgTuples}

(***************************************************************************)
(* State machine                                                           *)
(***************************************************************************)
CallRecord(op, command, path, scheduler, overwrite, preExists, preText, content, outcome) ==
    [op |-> op, command |-> command, path |-> path, scheduler |-> scheduler,
     overwrite |-> overwrite, preExists |-> preExists, preText |-> preText,
     content |-> content, outcome |-> outcome]

NoCall == CallRecord("none", "", NoPath, "", FALSE, FALSE, EmptyText, EmptyText, "none")

\* what is remembered of the call before the last one
Brief(c) == [op |-> c.op, path |-> c.path, overwrite |-> c.overwrite,
             preExists |-> c.preExists, outcome |-> c.outcome]

PreText(fs, p) == IF p \in DOMAIN fs THEN fs[p] ELSE EmptyText

NoRender == [op |-> "none", job |-> NoJob, scheduler |-> "", commands |-> <<>>,
             outcome |-> "none", out |-> EmptyText]

NoScript == [script |-> NoPath, commands |-> <<>>, log |-> NoJob.log, writing |-> FALSE,
             content |-> EmptyText]

NoRun == [ran |-> FALSE, commands |-> <<>>, log |-> NoJob.log, clean |-> TRUE,
          lines |-> <<>>, statuses |-> <<>>, touched |-> <<>>, code |-> 0]

\* no child process
NoChild == [kind |-> "none", arg |-> "", status |-> 0]

\* bash has ended with this exit code
Ended(rc, code) == [ended |-> TRUE, code |-> code, rc |-> rc, pos |-> 0,
                    child |-> NoChild, after |-> -1]

\* bash waits for the child process it has started; pos is the offset of
\* the script it has consumed, after the exit code it ends with once the
\* child is back (-1: it reads on)
Waiting(rc, pos, child, after) ==
    [ended |-> FALSE, code |-> 0, rc |-> rc, pos |-> pos, child |-> child,
     after |-> after]

\* one bash process: the script it was started on and what make_jobscript
\* had written there, its offset in the file, $?, the child it waits for,
\* the commands it has run with their exit statuses, the markers it has
\* touched, its exit code, and whether the script was left alone while it ran
Shell(st, script, commands, log, clean, r, ran, statuses, touched) ==
    [st |-> st, script |-> script, commands |-> commands, log |-> log,
     clean |-> clean, pos |-> r.pos, rc |-> r.rc, child |-> r.child,
     after |-> r.after, code |-> r.code, ran |-> ran, statuses |-> statuses,
     touched |-> touched]

NoShell == Shell("none", NoPath, <<>>, NoJob.log, TRUE, Ended(0, 0), <<>>, <<>>, <<>>)

\* the concurrent callers
Procs == {"a", "b"}

Caller(pc, dir, jobname, resource, scheduler, commands, overwrite) ==
    [pc |-> pc, dir |-> dir, jobname |-> jobname, resource |-> resource,
     scheduler |-> scheduler, commands |-> commands, overwrite |-> overwrite,
     job |-> NoJob, sawDir |-> FALSE, decided |-> FALSE,
     wrote |-> FALSE, replaced |-> EmptyText, raised |-> "none"]

NoCaller == Caller("idle", NoPath, "", ResourceToAsk(1, 4), "", <<>>, FALSE)

InitCore ==
    /\ cmdA = NoValue
    /\ cmdB = NoValue
    /\ cmdRes = NoValue
    /\ cmdOp = "none"
    /\ cmdObjs = [before |-> <<>>, after |-> <<>>, self |-> 0, other |-> 0, res |-> 0,
                  raised |-> "none"]
    /\ files = [p \in {} |-> EmptyText]
    /\ dirs = {<<>>}
    /\ job = NoJob
    /\ jobScheduler = ""
    /\ last = NoCall
    /\ prev = Brief(NoCall)
    /\ ncalls = 0
    /\ gen = NoScript
    /\ ex = [n |-> 0, cur |-> NoRun, before |-> NoRun]
    /\ sh = [i \in 1..MaxExecs |-> NoShell]

Init ==
    /\ InitCore
    /\ rnd = NoRender
    /\ proc = [p \in Procs |-> NoCaller]

\* a caller runs setup_job and keeps the Job it returns
SetupJob(dir, jobname, job_resource, scheduler) ==
    /\ ncalls < MaxCalls
    /\ LET r == SetupJobResult(dirs, files, dir, jobname, job_resource, scheduler)
       IN /\ dirs' = r.dirs
          /\ job' = IF r.raised = "none" THEN r.value ELSE job
          /\ jobScheduler' = IF r.raised = "none" THEN scheduler ELSE jobScheduler
          /\ last' = CallRecord("setup_job", "", r.value.script, scheduler, FALSE,
                                r.value.script \in DOMAIN files,
                                PreText(files, r.value.script), EmptyText,
                                IF r.raised = "none" THEN "ok" ELSE r.raised)
    /\ prev' = Brief(last)
    /\ ncalls' = ncalls + 1
    /\ UNCHANGED <<files, cmdVars, auxVars>>

\* a caller runs make_jobscript on the Job it holds
MakeJobscript(commands, scheduler, overwrite, fault) ==
    /\ ncalls < MaxCalls
    /\ job # NoJob
    /\ LET r == MakeJobscriptResult(dirs, files, commands, job, scheduler, overwrite, fault)
       IN /\ fault # "none" => r.outcome = "OSError"
          /\ files' = r.files
          /\ last' = CallRecord("make_jobscript", "", job.script, scheduler, overwrite,
                                Exists(dirs, files, job.script),
                                PreText(files, job.script), r.content, r.outcome)
    /\ prev' = Brief(last)
    /\ ncalls' = ncalls + 1
    /\ UNCHANGED <<dirs, job, jobScheduler, cmdVars, auxVars>>

\* the environment leaves a zero-byte file at the script path (touch)
EnvTouch ==
    /\ ncalls < MaxCalls
    /\ job # NoJob
    /\ ~Exists(dirs, files, job.script)
    /\ files' = WithFile(files, job.script, EmptyText)
    /\ last' = CallRecord("touch", "", job.script, "", FALSE, FALSE, EmptyText,
                          EmptyText, "ok")
    /\ prev' = Brief(last)
    /\ ncalls' = ncalls + 1
    /\ UNCHANGED <<dirs, job, jobScheduler, cmdVars, auxVars>>

\* one run of the command-line program
CliMain(command, sample, wkdir, scheduler, realign_only, overwrite, nproc, ram, fault) ==
    /\ ncalls < MaxRuns
    /\ LET r == Main(command, sample, wkdir, scheduler, realign_only, overwrite,
                     nproc, ram, dirs, files, fault)
       IN /\ fault # "none" => r.outcome = "OSError"
          /\ files' = r.files
          /\ dirs' = r.dirs
          /\ last' = CallRecord("cli", command, r.path, scheduler, overwrite,
                                Exists(dirs, files, r.path), PreText(files, r.path),
                                r.content, r.outcome)
    /\ prev' = Brief(last)
    /\ ncalls' = ncalls + 1
    /\ UNCHANGED <<job, jobScheduler, cmdVars, auxVars>>

Next ==
    \/ \E dir \in WorkDirs, jobname \in JobNames, res \in Resources, s \in Schedulers :
          SetupJob(dir, jobname, res, s)
    \/ \E commands \in CommandLists, s \in Schedulers, ov \in BOOLEAN, fault \in Faults :
          MakeJobscript(commands, s, ov, fault)
    \/ EnvTouch

Spec == Init /\ [][Next]_vars

(***************************************************************************)
(* State machine of the command-line program                               *)
(***************************************************************************)
NextCli ==
    \E command \in SubCommands, sample \in Samples, wkdir \in WorkDirs,
       s \in Schedulers, ro \in BOOLEAN, ov \in BOOLEAN,
       nproc \in NprocValues, ram \in RamValues, fault \in Faults :
       CliMain(command, sample, wkdir, s, ro, ov, nproc, ram, fault)

SpecCli == Init /\ [][NextCli]_vars

(***************************************************************************)
(* State machine of the Command algebra                                    *)
(***************************************************************************)
\* the objects an operation starts from: self as the memory holds it and,
\* when the argument is a Command, a Command constructed from its arguments
Operand(b) ==
    IF b.kind = "Command" THEN NewCommand(<<cmdObjs.after[cmdObjs.self]>>, b.items)
    ELSE <<cmdObjs.after[cmdObjs.self]>>

\* the objects and addresses after an operation that started from the
\* memory h with self at address 1 and ended as r
Objects(h, r) ==
    [before |-> h, after |-> r.objs, self |-> 1,
     other |-> IF Len(h) > 1 THEN 2 ELSE 0, res |-> r.res, raised |-> r.raised]

\* Command(*items)
CmdNew(items) ==
    /\ cmdA' = CommandInit(items)
    /\ cmdB' = NoValue
    /\ cmdRes' = CommandInit(items)
    /\ cmdOp' = "init"
    /\ cmdObjs' = [before |-> <<>>, after |-> NewCommand(<<>>, items), self |-> 1,
                   other |-> 0, res |-> 1, raised |-> "none"]
    /\ UNCHANGED <<jobVars, auxVars>>

\* cmdA + b
CmdAdd(b) ==
    /\ cmdA.kind = "Command"
    /\ LET h == Operand(b)
           r == AddObj(h, 1, IF b.kind = "Command" THEN [kind |-> "ref", id |-> 2] ELSE b)
       IN /\ cmdObjs' = Objects(h, r)
          /\ cmdA' = ObjValue(r.objs, 1)
          /\ cmdB' = IF b.kind = "Command" THEN ObjValue(r.objs, 2) ELSE b
    /\ cmdRes' = Add(cmdA, b)
    /\ cmdOp' = "add"
    /\ UNCHANGED <<jobVars, auxVars>>

\* cmdA | b
CmdOr(b) ==
    /\ cmdA.kind = "Command"
    /\ b.kind = "Command"
    /\ LET h == Operand(b)
           r == OrObj(h, 1, 2)
       IN /\ cmdObjs' = Objects(h, r)
          /\ cmdA' = ObjValue(r.objs, 1)
          /\ cmdB' = ObjValue(r.objs, 2)
    /\ cmdRes' = Or(cmdA, b)
    /\ cmdOp' = "or"
    /\ UNCHANGED <<jobVars, auxVars>>

\* cmdA.direct_to_stdout(path, append=append)
CmdDirectToStdout(path, append) ==
    /\ cmdA.kind = "Command"
    /\ LET h == Operand(NoValue)
           r == RedirectObj(h, 1, CommandInit(<<StrArg(IF append THEN ">>" ELSE ">"),
                                                PathArg(path)>>))
       IN /\ cmdObjs' = Objects(h, r)
          /\ cmdA' = ObjValue(r.objs, 1)
          /\ cmdB' = List(<<PathArg(path)>>)
    /\ cmdRes' = DirectToStdout(cmdA, path, append)
    /\ cmdOp' = IF append THEN "direct_to_stdout_append" ELSE "direct_to_stdout"
    /\ UNCHANGED <<jobVars, auxVars>>

\* cmdA.direct_to_stderr(path, append=append)
CmdDirectToStderr(path, append) ==
    /\ cmdA.kind = "Command"
    /\ LET h == Operand(NoValue)
           r == RedirectObj(h, 1, CommandInit(<<StrArg(IF append THEN "2>>" ELSE "2>"),
                                                PathArg(path)>>))
       IN /\ cmdObjs' = Objects(h, r)
          /\ cmdA' = ObjValue(r.objs, 1)
          /\ cmdB' = List(<<PathArg(path)>>)
    /\ cmdRes' = DirectToStderr(cmdA, path, append)
    /\ cmdOp' = IF append THEN "direct_to_stderr_append" ELSE "direct_to_stderr"
    /\ UNCHANGED <<jobVars, auxVars>>

\* cmdA.redirect_stdout_to_stderr()
CmdRedirectStdoutToStderr ==
    /\ cmdA.kind = "Command"
    /\ LET h == Operand(NoValue)
           r == RedirectObj(h, 1, CommandInit(<<StrArg(">&2")>>))
       IN /\ cmdObjs' = Objects(h, r)
          /\ cmdA' = ObjValue(r.objs, 1)
          /\ cmdB' = NoValue
    /\ cmdRes' = RedirectStdoutToStderr(cmdA)
    /\ cmdOp' = "redirect_stdout_to_stderr"
    /\ UNCHANGED <<jobVars, auxVars>>

\* cmdA.redirect_stderr_to_stdout()
CmdRedirectStderrToStdout ==
    /\ cmdA.kind = "Command"
    /\ LET h == Operand(NoValue)
           r == RedirectObj(h, 1, CommandInit(<<StrArg("2>&1")>>))
       IN /\ cmdObjs' = Objects(h, r)
          /\ cmdA' = ObjValue(r.objs, 1)
          /\ cmdB' = NoValue
    /\ cmdRes' = RedirectStderrToStdout(cmdA)
    /\ cmdOp' = "redirect_stderr_to_stdout"
    /\ UNCHANGED <<jobVars, auxVars>>

\* cmd = <result of the last operation>: the object returned becomes the
\* next left operand, the other objects are no longer referred to
CmdRebind ==
    /\ cmdOp \notin {"none", "init", "rebind"}
    /\ Len(cmdRes.items) <= MaxTokens
    /\ cmdA' = ObjValue(cmdObjs.after, cmdObjs.res)
    /\ cmdB' = NoValue
    /\ cmdOp' = "rebind"
    /\ cmdObjs' = [before |-> <<cmdObjs.after[cmdObjs.res]>>,
                   after |-> <<cmdObjs.after[cmdObjs.res]>>,
                   self |-> 1, other |-> 0, res |-> 1, raised |-> "none"]
    /\ UNCHANGED <<cmdRes, jobVars, auxVars>>

NextCmd ==
    \/ \E items \in ArgTuples : CmdNew(items)
    \/ \E b \in Operands : CmdAdd(b)
    \/ \E b \in Operands : CmdOr(b)
    \/ \E path \in RedirectTargets, append \in BOOLEAN : CmdDirectToStdout(path, append)
    \/ \E path \in RedirectTargets, append \in BOOLEAN : CmdDirectToStderr(path, append)
    \/ CmdRedirectStdoutToStderr
    \/ CmdRedirectStderrToStdout
    \/ CmdRebind

SpecCmd == Init /\ [][NextCmd]_vars

(***************************************************************************)
(* Rendering of headers and scripts as functions of their inputs           *)
(***************************************************************************)
\* ResourceToAsk with all four fields given
ResourceRequest(nproc, ram, ntask, nodes) ==
    [ResourceToAsk(nproc, ram) EXCEPT !.ntask = ntask, !.nodes = nodes]

NprocRange == (-3)..MaxNproc

TaskValues == {1, 2}

NodeValues == {1, 2}

RenderRamValues == {1, 4}

RenderResources ==
    {ResourceRequest(n, r, t, d) :
        n \in NprocRange, r \in RenderRamValues, t \in TaskValues, d \in NodeValues}

NoFiles == [p \in {} |-> EmptyText]

\* the Jobs setup_job returns on a file system holding only the root
RenderJobs ==
    {SetupJobResult({<<>>}, NoFiles, dir, name, res, s).value :
        dir \in WorkDirs, name \in JobNames, res \in RenderResources,
        s \in SupportedSchedulers}

RenderCommandLists == Tuples({ToolX, Sort, CommandInit(<<>>)}, MaxCommands)

\* the arguments of a rendering: a Job, a scheduler name, a list of Commands
RenderInputs ==
    {[op |-> "input", job |-> j, scheduler |-> s, commands |-> commands,
      outcome |-> "none", out |-> EmptyText] :
        j \in RenderJobs, s \in Schedulers, commands \in RenderCommandLists}

InitRender ==
    /\ InitCore
    /\ rnd \in RenderInputs
    /\ proc = [p \in Procs |-> NoCaller]

\* SlurmJobHeader().make(job)
RenderSlurmHeader ==
    /\ rnd.op = "input"
    /\ rnd.scheduler = "slurm"
    /\ rnd' = [rnd EXCEPT !.op = "slurm_header", !.outcome = "ok",
                          !.out = SlurmJobHeaderMake(rnd.job)]
    /\ UNCHANGED <<cmdVars, jobVars, execVars, proc>>

\* SGEJobHeader().make(job)
RenderSGEHeader ==
    /\ rnd.op = "input"
    /\ rnd.scheduler = "sge"
    /\ rnd' = [rnd EXCEPT !.op = "sge_header", !.outcome = "ok",
                          !.out = SGEJobHeaderMake(rnd.job)]
    /\ UNCHANGED <<cmdVars, jobVars, execVars, proc>>

\* make_jobscript(commands, job, scheduler) right after setup_job, on a
\* file system that holds the job's directories and no script yet
RenderScript ==
    /\ rnd.op = "input"
    /\ LET j == rnd.job
           ds == {<<>>} \cup {SubSeq(j.script, 1, k) : k \in 1..(Len(j.script) - 1)}
           r == MakeJobscriptResult(ds, NoFiles, rnd.commands, j, rnd.scheduler,
                                    FALSE, "none")
       IN rnd' = [rnd EXCEPT !.op = "script", !.outcome = r.outcome,
                             !.out = PreText(r.files, j.script)]
    /\ UNCHANGED <<cmdVars, jobVars, execVars, proc>>

NextRender ==
    \/ RenderSlurmHeader
    \/ RenderSGEHeader
    \/ RenderScript

SpecRender == InitRender /\ [][NextRender]_vars

(***************************************************************************)
(* Properties                                                              *)
(***************************************************************************)
\* the write condition as the specification words it, on the recorded
\* state of the target before the call
TargetWritable(c) == ~c.preExists \/ Size(c.preText) = 0 \/ c.overwrite

\* the target file is as it was before the recorded call
TargetUntouched(c) ==
    /\ c.path \in DOMAIN files <=> (c.preExists /\ c.path \notin dirs)
    /\ PreText(files, c.path) = c.preText

\* C1: a make_jobscript call with a supported scheduler writes the script
\* exactly when the target did not exist, or existed with size zero, or
\* overwrite was true (the only other way out of that case being an I/O
\* error of the write); otherwise the call ends without error and the file
\* keeps its content.
C1_WriteIffTargetWritable ==
    (last.op = "make_jobscript" /\ last.scheduler \in SupportedSchedulers) =>
        /\ TargetWritable(last) <=> last.outcome \in {"written", "OSError"}
        /\ ~TargetWritable(last) => (last.outcome = "skipped" /\ TargetUntouched(last))
        /\ last.outcome = "written" =>
              (last.path \in DOMAIN files /\ files[last.path] = last.content)

\* an existing empty target is rewritten although overwrite is false
C1_Witness ==
    /\ last.op = "make_jobscript"
    /\ last.preExists
    /\ Size(last.preText) = 0
    /\ ~last.overwrite
    /\ last.outcome = "written"
    /\ Size(files[last.path]) > 0

\* C2: two successive make_jobscript calls with overwrite = false on a target
\* that did not exist, both returning normally, perform exactly one write:
\* the first writes, the second is skipped and leaves the content of the
\* first call in place, whatever commands and scheduler the second is given.
C2_SecondCallSkipped ==
    ( /\ prev.op = "make_jobscript" /\ last.op = "make_jobscript"
      /\ prev.path = last.path
      /\ ~prev.preExists
      /\ ~prev.overwrite /\ ~last.overwrite
      /\ prev.outcome \in {"written", "skipped"}
      /\ last.outcome \in {"written", "skipped"} ) =>
        /\ prev.outcome = "written"
        /\ last.outcome = "skipped"
        /\ last.path \in DOMAIN files
        /\ files[last.path] = last.preText

\* the second call was given inputs whose content differs from the file's
C2_Witness ==
    /\ prev.op = "make_jobscript" /\ prev.outcome = "written"
    /\ ~prev.preExists /\ ~prev.overwrite
    /\ last.op = "make_jobscript" /\ last.outcome = "skipped" /\ ~last.overwrite
    /\ prev.path = last.path
    /\ last.content # files[last.path]

\* C3: a make_jobscript call with a scheduler outside {slurm, sge, bash}
\* ends with the unsupported-scheduler error and changes no file, whatever
\* the state of the target and the value of overwrite.
C3_UnsupportedSchedulerFails ==
    [][ (last'.op = "make_jobscript" /\ last'.scheduler \notin SupportedSchedulers
         /\ ncalls' # ncalls) =>
            (last'.outcome = "ValueError" /\ files' = files /\ dirs' = dirs) ]_vars

\* the failing call would have written: fresh target and overwrite = true
C3_Witness ==
    /\ last.op = "make_jobscript"
    /\ last.scheduler = "pbs"
    /\ last.overwrite
    /\ ~last.preExists
    /\ last.outcome = "ValueError"
    /\ last.path \notin DOMAIN files

\* the lines of the text t that start with the directive prefix
DirectiveLines(t, prefix) == {i \in 1..Len(t) : t[i] # EmptyLine /\ t[i][1] = prefix}

\* the file name of path p is a job name followed by the suffix suf
HasSuffix(p, suf) == p # NoPath /\ \E n \in JobNames : p[Len(p)] = n \o suf

\* suffix and directives of the script at path p with text t agree
SuffixAgreesWithHeader(p, t) ==
    /\ HasSuffix(p, ".slurm") => DirectiveLines(t, "#SBATCH") # {}
    /\ HasSuffix(p, ".sge") => DirectiveLines(t, "#$") # {}
    /\ HasSuffix(p, ".sh") => (DirectiveLines(t, "#SBATCH") = {} /\ DirectiveLines(t, "#$") = {})

\* C4 as stated: every script make_jobscript writes to a path produced by
\* setup_job_script has directives that agree with the path suffix, whatever
\* scheduler arguments the two functions were given.
C4_Original ==
    (last.op = "make_jobscript" /\ last.outcome = "written") =>
        SuffixAgreesWithHeader(last.path, files[last.path])

\* C4 amended: the suffix and the directives of a written script agree when
\* make_jobscript is given the scheduler argument that setup_job_script was
\* given for the same job.
C4_SuffixAgreesForSameScheduler ==
    (last.op = "make_jobscript" /\ last.outcome = "written"
     /\ last.scheduler = jobScheduler) =>
        SuffixAgreesWithHeader(last.path, files[last.path])

\* an SGE script written with the scheduler it was set up for
C4_Witness ==
    /\ last.op = "make_jobscript" /\ last.outcome = "written"
    /\ last.scheduler = "sge" /\ jobScheduler = "sge"
    /\ HasSuffix(last.path, ".sge")
    /\ DirectiveLines(files[last.path], "#$") # {}

\* C5 as stated: after a make_jobscript call that ends with an I/O error the
\* target file holds what it held before the call or the complete content;
\* it is never left empty or truncated.
C5_Original ==
    (last.op = "make_jobscript" /\ last.outcome = "OSError") =>
        \/ TargetUntouched(last)
        \/ (last.path \in DOMAIN files /\ files[last.path] = last.content)

\* the script path the command-line program is to produce
CliScriptPath(wkdir, command, sample, scheduler) ==
    <<wkdir[1], "job",
      command \o "." \o sample \o
      (IF scheduler = "slurm" THEN ".slurm" ELSE IF scheduler = "sge" THEN ".sge" ELSE ".sh")>>

\* C6 as stated: every run of the command-line program with a supported
\* sub-command and scheduler, not hit by an I/O error, ends without error
\* and leaves the job script at <workdir>/job/<command>.<sample>.<suffix>.
C6_Original ==
    (last.op = "cli" /\ last.command \in SubCommands
     /\ last.scheduler \in SupportedSchedulers /\ last.outcome # "OSError") =>
        /\ last.outcome \in {"written", "skipped"}
        /\ \E wkdir \in WorkDirs, sample \in Samples :
              last.path = CliScriptPath(wkdir, last.command, sample, last.scheduler)
        /\ last.path \in DOMAIN files

\* tokens of an operand (a Command or a plain list), as strings
Tokens(x) == [i \in 1..Len(x.items) |-> Str(x.items[i])]

\* C7: the result of an append holds the tokens of the left operand followed
\* by the tokens of the right operand (a Command or a plain list) in order,
\* and renders as these tokens joined by single spaces.
C7_AppendConcatenates ==
    cmdOp = "add" =>
        /\ cmdRes.kind = "Command"
        /\ CommandArgs(cmdRes) = Tokens(cmdA) \o Tokens(cmdB)
        /\ Render(cmdRes) = JoinStr(Tokens(cmdA) \o Tokens(cmdB), " ")

\* a plain list holding a number is appended to a two-token command
C7_Witness ==
    /\ cmdOp = "add"
    /\ cmdB.kind = "list"
    /\ Len(cmdA.items) = 2
    /\ \E i \in 1..Len(cmdB.items) : cmdB.items[i].t = "int"
    /\ Len(cmdRes.items) = Len(cmdA.items) + Len(cmdB.items)

\* C8 as stated: c | d renders as render(c) + " | " + render(d); its tokens
\* are those of c, the token "|", those of d, the same as
\* append(["|"]).append(d).
C8_Original ==
    cmdOp = "or" =>
        /\ Render(cmdRes) = Render(cmdA) \o " | " \o Render(cmdB)
        /\ CommandArgs(cmdRes) = Tokens(cmdA) \o <<"|">> \o Tokens(cmdB)
        /\ cmdRes = Add(Add(cmdA, List(<<StrArg("|")>>)), cmdB)

\* C9 as stated: redirect_stdout_to_stderr appends exactly the token "1>&2",
\* redirect_stderr_to_stdout appends exactly the token "2>&1".
C9_Original ==
    /\ cmdOp = "redirect_stdout_to_stderr" =>
          CommandArgs(cmdRes) = Tokens(cmdA) \o <<"1>&2">>
    /\ cmdOp = "redirect_stderr_to_stdout" =>
          CommandArgs(cmdRes) = Tokens(cmdA) \o <<"2>&1">>

\* C10 as stated: no construction yields a Command whose program name is
\* empty (no tokens, or an empty first token).
C10_Original ==
    cmdOp = "init" =>
        ~(cmdRes.kind = "Command"
          /\ (Len(cmdRes.items) = 0 \/ Str(cmdRes.items[1]) = ""))

\* the operations that compose Commands
CompositionOps ==
    {"add", "or", "direct_to_stdout", "direct_to_stdout_append", "direct_to_stderr",
     "direct_to_stderr_append", "redirect_stdout_to_stderr", "redirect_stderr_to_stdout"}

\* the tokens of the object at address id of the memory h
TokensAt(h, id) == CommandArgs(ObjValue(h, id))

\* C11: after every append, pipe or redirection, also in a chain of them,
\* no object stores a str (the args property never rewrites what an object
\* stores), every Command object that existed before the operation (self and
\* the argument) has the tokens it had before, and the
\* Command returned is an object that did not exist before, holding the
\* result.
C11_OperandsUnchanged ==
    cmdOp \in CompositionOps =>
        /\ cmdObjs.raised = "none"
        /\ \A id \in DOMAIN cmdObjs.after : cmdObjs.after[id].t = "tuple"
        /\ \A id \in DOMAIN cmdObjs.before :
              TokensAt(cmdObjs.after, id) = TokensAt(cmdObjs.before, id)
        /\ cmdObjs.res \in DOMAIN cmdObjs.after
        /\ cmdObjs.res \notin DOMAIN cmdObjs.before
        /\ TokensAt(cmdObjs.after, cmdObjs.res) = CommandArgs(cmdRes)

\* a pipe of two non-empty Commands, the left one itself the object returned
\* by an earlier operation: five objects are in memory (self, the argument,
\* Command("|"), self + Command("|") and the result), the result is the last
\* and the two operands hold what they held
C11_Witness ==
    /\ cmdOp = "or"
    /\ Len(cmdA.items) = MaxTokens
    /\ \E i \in 1..Len(cmdA.items) : cmdA.items[i] \notin ArgPool
    /\ Len(cmdB.items) > 0
    /\ Len(cmdObjs.before) = 2 /\ Len(cmdObjs.after) = 5 /\ cmdObjs.res = 5
    /\ TokensAt(cmdObjs.after, 1) = Tokens(cmdA)
    /\ TokensAt(cmdObjs.after, 2) = Tokens(cmdB)
    /\ cmdRes # cmdA /\ cmdRes # cmdB

\* the lines of a text, each as the string it reads
LineStrings(t) == [i \in 1..Len(t) |-> LineText(t[i])]

\* C12: the Slurm header is the shebang line and then exactly seven #SBATCH
\* lines, in this order: --job-name (the name in double quotes), --output,
\* --error, --ntasks, --nodes, --cpus-per-task and --mem (RAM followed by
\* G), each value taken from the Job.
C12_SlurmHeaderLines ==
    rnd.op = "slurm_header" =>
        LET j == rnd.job
        IN /\ LineStrings(rnd.out) =
                 << "#!/usr/bin/env bash",
                    "",
                    "#SBATCH --job-name=\"" \o j.name \o "\"",
                    "#SBATCH --output=" \o PathStr(j.log.stdout),
                    "#SBATCH --error=" \o PathStr(j.log.stderr),
                    "#SBATCH --ntasks=" \o ToString(j.resource.ntask),
                    "#SBATCH --nodes=" \o ToString(j.resource.nodes),
                    "#SBATCH --cpus-per-task=" \o ToString(j.resource.nproc),
                    "#SBATCH --mem=" \o ToString(j.resource.ram) \o "G" >>
           /\ Cardinality(DirectiveLines(rnd.out, "#SBATCH")) = 7

\* a job whose task and node counts are not the defaults
C12_Witness ==
    /\ rnd.op = "slurm_header"
    /\ rnd.job.resource.ntask = 2
    /\ rnd.job.resource.nodes = 2
    /\ rnd.job.resource.nproc = 3
    /\ LineText(rnd.out[6]) = "#SBATCH --ntasks=2"
    /\ LineText(rnd.out[7]) = "#SBATCH --nodes=2"

\* C13: for a cpu count n >= 1 the parallel-environment line of the SGE
\* header is "#$ -pe shm k" with k the integer n divided by two, rounded
\* down.
C13_SgeHalvesCpuCount ==
    (rnd.op = "sge_header" /\ rnd.job.resource.nproc >= 1) =>
        \E k \in 0..rnd.job.resource.nproc :
            /\ 2 * k <= rnd.job.resource.nproc
            /\ rnd.job.resource.nproc < 2 * k + 2
            /\ LineText(rnd.out[6]) = "#$ -pe shm " \o ToString(k)

\* an odd cpu count: 3 cpus give the line for 1
C13_Witness ==
    /\ rnd.op = "sge_header"
    /\ rnd.job.resource.nproc = 3
    /\ LineText(rnd.out[6]) = "#$ -pe shm 1"

\* C14 as stated: the SGE header's directive lines are, in order, -N name,
\* -o stdout, -e stderr, the -pe shm line and -l h_vmem=<ram>G.
C14_Original ==
    rnd.op = "sge_header" =>
        LET j == rnd.job
        IN SubSeq(LineStrings(rnd.out), 3, Len(rnd.out)) =
              << "#$ -N " \o j.name,
                 "#$ -o " \o PathStr(j.log.stdout),
                 "#$ -e " \o PathStr(j.log.stderr),
                 "#$ -pe shm " \o ToString(IntHalf(j.resource.nproc)),
                 "#$ -l h_vmem=" \o ToString(j.resource.ram) \o "G" >>

\* the lines the body of a script must hold for the commands given
ExpectedBody(commands) ==
    IF Len(commands) = 0 THEN <<"">>
    ELSE [i \in 1..Len(commands) |-> JoinStr(CommandArgs(commands[i]), " ")]

\* C19: a written script is the header, an empty line, the body, an empty
\* line and the status epilogue, in this order; the body holds one line per
\* command, in the order given, each the command's tokens joined by single
\* spaces.
C19_ContentOrder ==
    (rnd.op = "script" /\ rnd.outcome = "written") =>
        LineStrings(rnd.out) =
            LineStrings(Header(rnd.job, rnd.scheduler).value) \o <<"">>
            \o ExpectedBody(rnd.commands) \o <<"">>
            \o LineStrings(AddRcStatusBlock(rnd.job.log))

\* two different commands: the second given is the second line of the body
C19_Witness ==
    /\ rnd.op = "script" /\ rnd.outcome = "written"
    /\ rnd.scheduler = "sge"
    /\ rnd.commands = <<Sort, ToolX>>
    /\ LineText(rnd.out[9]) = "sort -k 1"
    /\ LineText(rnd.out[10]) = "toolX --in /wd/a.fq"

(***************************************************************************)
(* Execution of a generated script by bash                                 *)
(***************************************************************************)
\* the exit statuses a command of the body can end with
ExitStatuses == {0, 2}

\* the paths a touch line of an epilogue can name
MarkerPaths ==
    UNION {{l.donefile, l.failfile} :
             l \in {SetupJobLogfiles({<<>>}, NoFiles, dir, name).value :
                      dir \in WorkDirs, name \in JobNames}}

\* the programs of the command lines that are given to make_jobscript
Programs == {Str(c.items[1]) : c \in {ToolX, Sort}}

\* the words bash accepts only inside a compound command
ReservedWords == {"then", "else", "elif", "fi", "do", "done", "esac", "in", "}"}

\* the first line of the epilogue
IfLine == LineText(AddRcStatusBlock(NoJob.log)[2])

\* touch PATH: creates an empty file unless the file exists
Touch(fs, p) == IF p \in DOMAIN fs THEN fs ELSE WithFile(fs, p, EmptyText)

RECURSIVE DropSpaces(_)
\* a sequence of characters without its leading blanks
DropSpaces(s) == IF s # <<>> /\ Head(s) = " " THEN DropSpaces(Tail(s)) ELSE s

RECURSIVE DropTrailingSpaces(_)
DropTrailingSpaces(s) ==
    IF s # <<>> /\ s[Len(s)] = " " THEN DropTrailingSpaces(SubSeq(s, 1, Len(s) - 1))
    ELSE s

RECURSIVE FirstWord(_)
\* the characters up to the first blank or semicolon
FirstWord(s) ==
    IF s = <<>> \/ Head(s) \in {" ", ";"} THEN <<>>
    ELSE <<Head(s)>> \o FirstWord(Tail(s))

\* the string a sequence of characters spells
StrOf(cs) == JoinStr(cs, "")

\* NAME=value: a word that bash takes as an assignment
IsAssignment(w) ==
    \E i \in 2..Len(w) :
        /\ w[i] = "="
        /\ w[1] \in NameStart
        /\ \A h \in 1..(i - 1) : w[h] \in NameChars

\* what bash makes of one line found in the script file.  The line need not
\* be a whole line of a generated script: after the file has been rewritten
\* bash goes on at the byte offset it had reached.
ShellLine(line, ds, fs) ==
    LET s == DropSpaces(line)
        w == FirstWord(s)
        rest == DropTrailingSpaces(DropSpaces(SubSeq(s, Len(w) + 1, Len(s))))
        semi == IF \E i \in 1..Len(s) : s[i] = ";"
                THEN CHOOSE i \in 1..Len(s) : s[i] = ";" /\ \A h \in 1..(i - 1) : s[h] # ";"
                ELSE 0
        kind(k) == [kind |-> k, arg |-> "", status |-> 0]
    IN IF s = <<>> \/ s[1] = "#" THEN kind("blank")
       \* a quote that is never closed: unexpected EOF
       ELSE IF Cardinality({i \in 1..Len(s) : s[i] = "\""}) % 2 = 1 THEN kind("eof")
       ELSE IF StrOf(s) = IfLine THEN kind("if")
       ELSE IF s[1] = ";" \/ StrOf(w) \in ReservedWords THEN kind("syntax")
       ELSE IF semi > 0
               /\ StrOf(FirstWord(DropSpaces(SubSeq(s, semi + 1, Len(s))))) \in ReservedWords
       THEN kind("syntax")
       ELSE IF StrOf(w) = "exit"
       THEN [kind |-> "exit", arg |-> "",
             status |-> CHOOSE n \in 0..255 : ToString(n) = StrOf(rest)]
       ELSE IF StrOf(w) = "touch" THEN [kind |-> "touch", arg |-> StrOf(rest), status |-> 0]
       ELSE IF StrOf(w) \in Programs THEN [kind |-> "command", arg |-> StrOf(s), status |-> 0]
       ELSE IF IsAssignment(w) /\ rest = <<>> THEN kind("assignment")
       \* a path that exists and cannot be executed, or a command not found
       ELSE IF w[1] = "/" /\ \E p \in ds \cup DOMAIN fs : PathStr(p) = StrOf(w)
       THEN [kind |-> "fails", arg |-> StrOf(s), status |-> 126]
       ELSE [kind |-> "fails", arg |-> StrOf(s), status |-> 127]

\* the offset of the end of the line that starts at offset o of cs: that of
\* its newline, or the length of cs when the line is the last
LineEnd(cs, o) ==
    IF \E i \in (o + 1)..Len(cs) : cs[i] = "\n"
    THEN (CHOOSE i \in (o + 1)..Len(cs) :
              cs[i] = "\n" /\ \A h \in (o + 1)..(i - 1) : cs[h] # "\n") - 1
    ELSE Len(cs)

\* the line that starts at offset o
LineAt(cs, o) == SubSeq(cs, o + 1, LineEnd(cs, o))

\* the offset after the line that starts at offset o and after its newline
AfterLine(cs, o) == IF LineEnd(cs, o) < Len(cs) THEN LineEnd(cs, o) + 1 ELSE Len(cs)

RECURSIVE AfterLines(_, _, _)
\* the offset after the n lines from offset o on
AfterLines(cs, o, n) == IF n = 0 THEN o ELSE AfterLines(cs, AfterLine(cs, o), n - 1)

RECURSIVE ReadOn(_, _, _, _, _)
\* bash reads the script file, cs by now, from offset o on, with $? = rc,
\* and runs what it finds up to the next command it has to start a process
\* for.  An if ... fi is read as a whole before any of it runs.
ReadOn(cs, o, rc, ds, fs) ==
    IF o >= Len(cs) THEN Ended(rc, rc)
    ELSE LET l == ShellLine(LineAt(cs, o), ds, fs)
             next == AfterLine(cs, o)
         IN IF l.kind = "blank" THEN ReadOn(cs, next, rc, ds, fs)
            ELSE IF l.kind = "eof" THEN Ended(rc, IF rc # 0 THEN rc ELSE 2)
            ELSE IF l.kind = "syntax" THEN Ended(rc, 2)
            ELSE IF l.kind = "assignment" THEN ReadOn(cs, next, 0, ds, fs)
            ELSE IF l.kind = "exit" THEN Ended(rc, l.status)
            ELSE IF l.kind = "if"
            THEN LET then1 == ShellLine(LineAt(cs, AfterLines(cs, o, 1)), ds, fs)
                     then2 == ShellLine(LineAt(cs, AfterLines(cs, o, 2)), ds, fs)
                     else1 == ShellLine(LineAt(cs, AfterLines(cs, o, 4)), ds, fs)
                     else2 == ShellLine(LineAt(cs, AfterLines(cs, o, 5)), ds, fs)
                 IN IF rc # 0
                    THEN Waiting(rc, AfterLines(cs, o, 7), then1, then2.status)
                    ELSE Waiting(rc, AfterLines(cs, o, 7), else1, else2.status)
            ELSE Waiting(rc, next, l, -1)

\* a Command whose rendering is a command line bash runs
HasTokens(cmd) == Len(CommandArgs(cmd)) > 0

\* what is kept of an execution that has ended
Run(s) == [ran |-> TRUE, commands |-> s.commands, log |-> s.log, clean |-> s.clean,
           lines |-> s.ran, statuses |-> s.statuses, touched |-> s.touched,
           code |-> s.code]

\* bash after it has read on in the file: it waits for the next child, or
\* it has ended
ShellAfter(s, r, ran, statuses, touched) ==
    Shell(IF r.ended THEN "ended" ELSE "child", s.script, s.commands, s.log,
          s.clean, r, ran, statuses, touched)

\* the shells and the executions after shell i has become s
ExecStep(i, s) ==
    /\ sh' = [sh EXCEPT ![i] = s]
    /\ ex' = [n |-> IF sh[i].st = "none" THEN ex.n + 1 ELSE ex.n,
              cur |-> IF s.st = "ended" THEN Run(s) ELSE ex.cur,
              before |-> IF s.st = "ended" THEN ex.cur ELSE ex.before]

\* make_jobscript on the Job the caller holds, up to open(job.script, "w"):
\* the call ends here when it raises or skips the write
MakeJobscriptOpen(commands, scheduler, overwrite) ==
    /\ ncalls < MaxCalls
    /\ job # NoJob
    /\ ~gen.writing
    /\ LET r == MakeJobscriptResult(dirs, files, commands, job, scheduler, overwrite, "none")
       IN IF r.outcome = "written"
          THEN /\ files' = OpenForWrite(dirs, files, job, overwrite).files
               /\ gen' = [script |-> job.script, commands |-> commands,
                          log |-> job.log, writing |-> TRUE,
                          content |-> r.content]
               /\ sh' = [i \in DOMAIN sh |->
                           IF sh[i].st = "child" /\ sh[i].script = job.script
                           THEN [sh[i] EXCEPT !.clean = FALSE] ELSE sh[i]]
          ELSE UNCHANGED <<files, gen, sh>>
    /\ ncalls' = ncalls + 1
    /\ UNCHANGED <<dirs, job, jobScheduler, last, prev, cmdVars, rnd, ex, proc>>

\* fOUT.write("\n\n".join(content)) and the close of the file: the content
\* reaches the file
MakeJobscriptWrite ==
    /\ gen.writing
    /\ files' = WithFile(files, gen.script, WriteAtStart(files[gen.script], gen.content))
    /\ gen' = [gen EXCEPT !.writing = FALSE]
    /\ UNCHANGED <<dirs, job, jobScheduler, last, prev, ncalls, cmdVars, rnd, ex, sh, proc>>

\* bash is started on the script written last: it reads the file and runs
\* it up to the first command
ExecStart ==
    /\ ex.n < MaxExecs
    /\ gen.script \in DOMAIN files
    /\ LET i == ex.n + 1
           s == Shell("none", gen.script, gen.commands, gen.log, ~gen.writing,
                      Ended(0, 0), <<>>, <<>>, <<>>)
           r == ReadOn(TextChars(files[gen.script]), 0, 0, dirs, files)
       IN ExecStep(i, ShellAfter(s, r, <<>>, <<>>, <<>>))
    /\ UNCHANGED <<jobVars, cmdVars, rnd, gen, proc>>

\* a command of the body returns with an exit status; bash reads on in the
\* file, from the offset it had reached
ExecCommandReturns(i, status) ==
    /\ sh[i].st = "child"
    /\ sh[i].child.kind = "command"
    /\ LET s == sh[i]
           r == ReadOn(TextChars(files[s.script]), s.pos, status, dirs, files)
       IN ExecStep(i, ShellAfter(s, r, Append(s.ran, s.child.arg),
                                 Append(s.statuses, status), s.touched))
    /\ UNCHANGED <<jobVars, cmdVars, rnd, gen, proc>>

\* the touch that bash waits for makes its marker; it has not exited yet and
\* bash goes on waiting
ExecTouchMakes(i) ==
    /\ sh[i].st = "child"
    /\ sh[i].child.kind = "touch"
    /\ LET s == sh[i]
           p == CHOOSE q \in MarkerPaths : PathStr(q) = s.child.arg
       IN /\ files' = Touch(files, p)
          /\ ExecStep(i, [s EXCEPT !.child.kind = "touched",
                                   !.touched = Append(s.touched, p)])
    /\ UNCHANGED <<dirs, job, jobScheduler, last, prev, ncalls, cmdVars, rnd, gen, proc>>

\* the touch exits, with status 0: bash runs the exit that follows it in the
\* epilogue, or reads on in the file
ExecTouchReturns(i) ==
    /\ sh[i].st = "child"
    /\ sh[i].child.kind = "touched"
    /\ LET s == sh[i]
           r == IF s.after >= 0 THEN Ended(0, s.after)
                ELSE ReadOn(TextChars(files[s.script]), s.pos, 0, dirs, files)
       IN ExecStep(i, ShellAfter(s, r, s.ran, s.statuses, s.touched))
    /\ UNCHANGED <<jobVars, cmdVars, rnd, gen, proc>>

\* bash could not run what it found at its offset (command not found: 127,
\* not executable: 126) and reads on
ExecFails(i) ==
    /\ sh[i].st = "child"
    /\ sh[i].child.kind = "fails"
    /\ LET s == sh[i]
           r == ReadOn(TextChars(files[s.script]), s.pos, s.child.status, dirs, files)
       IN ExecStep(i, ShellAfter(s, r, s.ran, s.statuses, s.touched))
    /\ UNCHANGED <<jobVars, cmdVars, rnd, gen, proc>>

\* the command lists given to make_jobscript before a script is executed
RunCommandLists == {<<ToolX>>, <<Sort>>, <<ToolX, Sort>>, <<ToolX, CommandInit(<<>>)>>}

NextRun ==
    \/ \E dir \in WorkDirs, jobname \in JobNames, res \in Resources, s \in Schedulers :
          ~gen.writing /\ SetupJob(dir, jobname, res, s)
    \/ \E commands \in RunCommandLists, s \in Schedulers, ov \in BOOLEAN :
          MakeJobscriptOpen(commands, s, ov)
    \/ MakeJobscriptWrite
    \/ ExecStart
    \/ \E i \in 1..MaxExecs, status \in ExitStatuses : ExecCommandReturns(i, status)
    \/ \E i \in 1..MaxExecs : ExecTouchMakes(i)
    \/ \E i \in 1..MaxExecs : ExecTouchReturns(i)
    \/ \E i \in 1..MaxExecs : ExecFails(i)

SpecRun == Init /\ [][NextRun]_vars

\* no bash process is running
NoShellRunning == \A i \in DOMAIN sh : sh[i].st # "child"

\* the exit status the epilogue is said to observe in run r: that of the
\* last command given, when that command is one that runs
ObservedStatus(r) ==
    IF HasTokens(r.commands[Len(r.commands)])
    THEN <<r.statuses[Len(r.statuses)]>>
    ELSE <<>>

\* C15 as stated: for a script generated from commands c1..cn, n >= 1, an
\* execution (of the script as generated: it is not written again while it
\* runs) touches exactly one marker; when cn exits non-zero it is the fail
\* marker and the exit code is 1, when cn exits zero it is the done marker
\* and the exit code is 0; two executions that differ only in the exit
\* statuses of c1..c(n-1) touch the same marker and exit the same.
C15_Original ==
    (ex.cur.ran /\ ex.cur.clean /\ Len(ex.cur.commands) >= 1) =>
        /\ Len(ex.cur.touched) = 1
        /\ ObservedStatus(ex.cur) # <<>> =>
              /\ ObservedStatus(ex.cur)[1] # 0 =>
                    (ex.cur.touched = <<ex.cur.log.failfile>> /\ ex.cur.code = 1)
              /\ ObservedStatus(ex.cur)[1] = 0 =>
                    (ex.cur.touched = <<ex.cur.log.donefile>> /\ ex.cur.code = 0)
        /\ (/\ ex.before.ran /\ ex.before.clean
            /\ ex.before.commands = ex.cur.commands
            /\ ex.before.log = ex.cur.log
            /\ ObservedStatus(ex.before) = ObservedStatus(ex.cur)) =>
              (ex.cur.touched = ex.before.touched /\ ex.cur.code = ex.before.code)

\* C16 as stated: after an execution that ends successfully the .done and
\* .fail markers are not both present, and before any execution of the
\* script (after setup_job and make_jobscript only) neither marker exists.
C16_Original ==
    /\ (ex.cur.ran /\ ex.cur.clean /\ ex.cur.code = 0 /\ NoShellRunning) =>
          ~(ex.cur.log.donefile \in DOMAIN files /\ ex.cur.log.failfile \in DOMAIN files)
    /\ ex.n = 0 => \A p \in MarkerPaths : p \notin DOMAIN files

(***************************************************************************)
(* Concurrent callers: setup_job and make_jobscript step by step           *)
(***************************************************************************)
RaceJobNames == {"hlareforged.S1", "hlapolysolver.S1"}

RaceSchedulers == {"slurm", "sge"}

RaceCommandLists == {<<ToolX>>, <<Sort>>}

RaceCallers ==
    {Caller("log_exists", dir, name, res, s, commands, ov) :
        dir \in WorkDirs, name \in RaceJobNames, res \in Resources,
        s \in RaceSchedulers, commands \in RaceCommandLists, ov \in BOOLEAN}

InitRace ==
    /\ InitCore
    /\ rnd = NoRender
    /\ proc \in [Procs -> RaceCallers]

\* the first prefix of path that is not a directory yet
ShallowestMissing(ds, path) ==
    LET k == CHOOSE i \in 1..Len(path) :
                 /\ SubSeq(path, 1, i) \notin ds
                 /\ \A h \in 1..(i - 1) : SubSeq(path, 1, h) \in ds
    IN SubSeq(path, 1, k)

MkdirStepNotExistOk(ds, fs, path) ==
    IF path \in ds \/ path \in DOMAIN fs
    THEN [raised |-> "FileExistsError", dirs |-> ds, finished |-> TRUE]
    ELSE [raised |-> "none", dirs |-> ds \cup {ShallowestMissing(ds, path)},
          finished |-> ShallowestMissing(ds, path) = path]

\* one os.mkdir of path.mkdir(parents=True, exist_ok=True): a directory that
\* exists by now is accepted, a missing parent is created first
MkdirStep(ds, fs, path) ==
    IF path \in ds THEN [raised |-> "none", dirs |-> ds, finished |-> TRUE]
    ELSE IF path \in DOMAIN fs
    THEN [raised |-> "FileExistsError", dirs |-> ds, finished |-> TRUE]
    ELSE [raised |-> "none", dirs |-> ds \cup {ShallowestMissing(ds, path)},
          finished |-> ShallowestMissing(ds, path) = path]

RaceVars == <<cmdVars, job, jobScheduler, last, prev, ncalls, rnd, execVars>>

\* make_dir(logdir): if not path.exists()
RaceLogExists(p) ==
    /\ proc[p].pc = "log_exists"
    /\ proc' = [proc EXCEPT ![p].pc =
                   IF Exists(dirs, files, PathJoin(proc[p].dir, "log"))
                   THEN "job_exists" ELSE "log_mkdir"]
    /\ UNCHANGED <<files, dirs, RaceVars>>

\* make_dir(logdir): path.mkdir(...)
RaceLogMkdir(p) ==
    /\ proc[p].pc = "log_mkdir"
    /\ LET r == MkdirStep(dirs, files, PathJoin(proc[p].dir, "log"))
       IN /\ dirs' = r.dirs
          /\ proc' = [proc EXCEPT ![p].pc = IF r.raised # "none" THEN "raised"
                                            ELSE IF r.finished THEN "job_exists"
                                            ELSE "log_mkdir",
                                  ![p].raised = r.raised,
                                  ![p].sawDir = @ \/ PathJoin(proc[p].dir, "log") \in dirs]
    /\ UNCHANGED <<files, RaceVars>>

\* make_dir(jobdir): if not path.exists()
RaceJobExists(p) ==
    /\ proc[p].pc = "job_exists"
    /\ proc' = [proc EXCEPT ![p].pc =
                   IF Exists(dirs, files, PathJoin(proc[p].dir, "job"))
                   THEN "suffix" ELSE "job_mkdir"]
    /\ UNCHANGED <<files, dirs, RaceVars>>

\* make_dir(jobdir): path.mkdir(...)
RaceJobMkdir(p) ==
    /\ proc[p].pc = "job_mkdir"
    /\ LET r == MkdirStep(dirs, files, PathJoin(proc[p].dir, "job"))
       IN /\ dirs' = r.dirs
          /\ proc' = [proc EXCEPT ![p].pc = IF r.raised # "none" THEN "raised"
                                            ELSE IF r.finished THEN "suffix"
                                            ELSE "job_mkdir",
                                  ![p].raised = r.raised,
                                  ![p].sawDir = @ \/ PathJoin(proc[p].dir, "job") \in dirs]
    /\ UNCHANGED <<files, RaceVars>>

\* the rest of setup_job and the start of make_jobscript, which touch no
\* file: the suffix, the Job, the header, body and tail
RaceAssemble(p) ==
    /\ proc[p].pc = "suffix"
    /\ LET c == proc[p]
           log == SetupJobLogfiles(dirs, files, c.dir, c.jobname).value
           script == SetupJobScript(dirs, files, c.dir, c.jobname, c.scheduler)
           j == Job(c.jobname, c.resource, log, script.value)
       IN proc' = [proc EXCEPT
                     ![p].raised = IF script.raised # "none" THEN script.raised
                                   ELSE Header(j, c.scheduler).raised,
                     ![p].job = IF script.raised # "none" THEN NoJob ELSE j,
                     ![p].pc = IF script.raised # "none"
                                  \/ Header(j, c.scheduler).raised # "none"
                               THEN "raised" ELSE "check_exists"]
    /\ UNCHANGED <<files, dirs, RaceVars>>

\* if not job.script.exists() or overwrite ...
RaceCheckExists(p) ==
    /\ proc[p].pc = "check_exists"
    /\ LET write == ~Exists(dirs, files, proc[p].job.script) \/ proc[p].overwrite
       IN proc' = [proc EXCEPT ![p].pc = IF write THEN "open" ELSE "check_stat",
                               ![p].decided = write]
    /\ UNCHANGED <<files, dirs, RaceVars>>

\* ... or job.script.stat().st_size == 0
RaceCheckStat(p) ==
    /\ proc[p].pc = "check_stat"
    /\ LET write == StSize(dirs, files, proc[p].job.script) = 0
       IN proc' = [proc EXCEPT ![p].pc = IF write THEN "open" ELSE "done",
                               ![p].decided = write]
    /\ UNCHANGED <<files, dirs, RaceVars>>

\* with open(job.script, "w") as fOUT
RaceOpen(p) ==
    /\ proc[p].pc = "open"
    /\ LET r == OpenForWrite(dirs, files, proc[p].job, proc[p].overwrite)
       IN /\ files' = r.files
          /\ proc' = [proc EXCEPT ![p].pc = IF r.opened THEN "write" ELSE "done",
                                  ![p].replaced = IF r.opened
                                                  THEN PreText(files, proc[p].job.script)
                                                  ELSE EmptyText]
    /\ UNCHANGED <<dirs, RaceVars>>

\* fOUT.write("\n\n".join(content)) and the close of the file: the content is
\* written from the offset of this open, 0, over what the file holds by now
RaceWrite(p) ==
    /\ proc[p].pc = "write"
    /\ files' = WithFile(files, proc[p].job.script,
                         WriteAtStart(files[proc[p].job.script],
                                      Content(proc[p].commands, proc[p].job,
                                              proc[p].scheduler)))
    /\ proc' = [proc EXCEPT ![p].pc = "done", ![p].wrote = TRUE]
    /\ UNCHANGED <<dirs, RaceVars>>

NextRace ==
    \E p \in Procs :
        \/ RaceLogExists(p)
        \/ RaceLogMkdir(p)
        \/ RaceJobExists(p)
        \/ RaceJobMkdir(p)
        \/ RaceAssemble(p)
        \/ RaceCheckExists(p)
        \/ RaceCheckStat(p)
        \/ RaceOpen(p)
        \/ RaceWrite(p)

SpecRace == InitRace /\ [][NextRace]_vars

\* what caller c writes
ContentOf(c) == Content(c.commands, c.job, c.scheduler)

\* C17: make_jobscript holds no lock and does not look at the script again
\* between its existence/size check and its write: a caller that has
\* decided to write does write, whatever the other caller has done to the
\* file in between, so a decision that has become stale is still acted on.
C17_StaleDecisionActedOn ==
    \A p \in Procs :
        (proc[p].pc = "done" /\ proc[p].decided) =>
            /\ proc[p].wrote
            /\ proc[p].job.script \in DOMAIN files

\* both callers ran with overwrite=false on the same path, both wrote, and
\* the later open replaced the content the other caller had written
C17_Witness ==
    \E p \in Procs : \E q \in Procs \ {p} :
        /\ proc[p].pc = "done" /\ proc[q].pc = "done"
        /\ ~proc[p].overwrite /\ ~proc[q].overwrite
        /\ proc[p].job.script = proc[q].job.script
        /\ proc[p].wrote /\ proc[q].wrote
        /\ ContentOf(proc[p]) # ContentOf(proc[q])
        /\ proc[q].replaced = ContentOf(proc[p])
        /\ files[proc[q].job.script] = ContentOf(proc[q])

\* setup_job followed by make_jobscript, run alone on ds and fs
SeqRun(ds, fs, c) ==
    LET s == SetupJobResult(ds, fs, c.dir, c.jobname, c.resource, c.scheduler)
        m == MakeJobscriptResult(s.dirs, fs, c.commands, s.value, c.scheduler,
                                 c.overwrite, "none")
    IN [dirs |-> s.dirs, files |-> m.files]

\* the callers one after the other, from the file system they started on
OneAfterTheOther ==
    SeqRun(SeqRun({<<>>}, NoFiles, proc["a"]).dirs,
           SeqRun({<<>>}, NoFiles, proc["a"]).files, proc["b"])

\* both callers have come to an end, whichever it is
BothEnded == \A p \in Procs : proc[p].pc \in {"done", "raised"}

\* the script path a caller's arguments stand for
ScriptPathOf(c) == SetupJobScript({}, NoFiles, c.dir, c.jobname, c.scheduler).value

\* C18: when the two callers' script paths differ, in every interleaving
\* both end without an error, each script holds the content its own call
\* assembled, and files and directories are those left by running the two
\* calls one after the other.
C18_DistinctPathsIndependent ==
    (BothEnded /\ ScriptPathOf(proc["a"]) # ScriptPathOf(proc["b"])) =>
        /\ \A p \in Procs :
              /\ proc[p].pc = "done"
              /\ proc[p].raised = "none"
              /\ proc[p].job.script = ScriptPathOf(proc[p])
              /\ files[proc[p].job.script] = ContentOf(proc[p])
        /\ files = OneAfterTheOther.files
        /\ dirs = OneAfterTheOther.dirs

\* two callers sharing the working directory, and so log/ and job/: one
\* of them found a directory made by the other when it came to make it,
\* and both have written their different scripts
C18_Witness ==
    /\ BothEnded
    /\ ScriptPathOf(proc["a"]) # ScriptPathOf(proc["b"])
    /\ proc["a"].dir = proc["b"].dir
    /\ \E p \in Procs : proc[p].sawDir
    /\ proc["a"].wrote /\ proc["b"].wrote
    /\ Cardinality(DOMAIN files) = 2

====
